---- MODULE Spec2Model ----
(***************************************************************************)
(* GitHub release monitor (src/github_monitor.py).                         *)
(*                                                                         *)
(* One run of main(): the persisted release state is loaded, one           *)
(* check_repo_for_updates task per monitored repository is started, the    *)
(* tasks interleave at their await points (release fetch with retries,     *)
(* parent-repository HEAD check, AI summary with retries in a worker       *)
(* thread, one POST per message chunk, operator notification), main        *)
(* gathers the results and saves the new state.                            *)
(*                                                                         *)
(* A run is main() past its repository-list guard (line 605): the list of  *)
(* repositories is not empty.  Release ids are positive integers, as the   *)
(* release source issues them.  The attempt counters are those of the two  *)
(* retry loops (tenacity's attempt_number): the fetch loop's count is kept *)
(* until the task calls the summary, the summary loop's until the          *)
(* announcement is built.                                                  *)
(***************************************************************************)
EXTENDS Integers, Sequences, FiniteSets, TLC

\* ------------------------------------------------------------------ bounds
\* The largest number of chunks split_message_markdown returns for a message.
MaxChunks == 2
\* The longest text handed to split_message_markdown, and the largest
\* max_length it is called with.
MaxTextLen == 6
MaxLimit == 4
\* The longest string handed to escape_markdown_v2, and the largest number of
\* parts (spans and plain characters) of a text handed to
\* convert_ai_markdown_to_telegram.
MaxEscapeLen == 4
MaxParts == 3
\* By how much the longest filling of a release description exceeds the
\* budget of the fallback summary.
MaxOver == 1

\* ------------------------------------------------------- program constants
\* stop_after_attempt(3) of the release fetch (AsyncRetrying, line 513).
FetchMaxAttempts == 3
\* stop_after_attempt(3) of get_openrouter_summary_with_retry (line 319).
SummaryMaxAttempts == 3
\* wait_exponential(min=4, max=10) of the release fetch (line 513).
FetchWaitMin == 4
FetchWaitMax == 10
\* The fallback summary: more than 500 characters are cut to the first 497
\* and "..." (lines 427-428).
FallbackBudget == 500
FallbackKept == 497

\* Python's None: an absent state entry, a task that returns no release id.
None == 0

\* repos_to_monitor: the display names of the monitored repositories.
Repos == {"r1", "r2"}
\* The ids the release source may report.
ReleaseIds == {100, 101}

\* ----------------------------------------------------------- call outcomes
\* client.get of releases/latest: a transport exception or a status class.
FetchOutcomes == {"exc", "5xx", "404", "403", "4xx", "200"}
\* openrouter_client.chat.completions.create: a usable answer, an answer of
\* at most 10 characters (ValueError), or an exception of the client.
SummaryOutcomes == {"ok", "empty", "exc", "5xx", "403", "4xx"}
\* client.post to the notification sink: accepted, an error status
\* (raise_for_status), or a transport exception.
SinkOutcomes == {"200", "400", "403", "404", "exc"}
\* client.head of the repository resource.
HeadOutcomes == {"200", "other", "exc"}
\* save_state: written, open() failed, or json.dump failed half way.
SaveOutcomes == {"ok", "open_failed", "write_failed"}

\* The release object of a 200 response: well formed with a description
\* ("ok"), well formed with no description ("nobody"), published_at null
\* ("nulldate": published_at[:10] raises TypeError at line 559), or not JSON /
\* lacking id, tag_name or html_url ("malformed": raises at lines 534-544).
NoPayload == [kind |-> "none", id |-> None]
Payloads ==
    {[kind |-> k, id |-> i] : k \in {"ok", "nobody", "nulldate"}, i \in ReleaseIds}
        \cup {[kind |-> "malformed", id |-> None]}

VARIABLES
    mainPc,         \* main's position: start, gather, save, done
    stateFile,      \* the state file: [status, data]
    current_state,  \* main's snapshot of the state (load_state's result)
    new_state,      \* main's copy, the map handed to save_state
    loadCalls,      \* calls of load_state in the run
    saveCalls,      \* calls of save_state in the run
    saveOutcome,    \* how save_state ended ("none" before it ran)
    pc,             \* each task's position
    last_id,        \* each task's last_seen_id argument
    fetchAttempts,  \* release-fetch attempts made by each task
    fetchStatus,    \* outcome of each task's latest release-fetch attempt
    fetchWaits,     \* the backoff waits slept in each task's fetch loop, in order
    release_id,     \* latest_release['id'] (line 535)
    original_body,  \* line 547: none (not read), text, nodesc
    published_at,   \* line 545: none (not read), date, null
    sumAttempts,    \* summary attempts made for each task
    sumStatus,      \* outcome of the latest summary attempt of the loop
    summary,        \* the text used: none, ai, nodesc, fallback
    nChunks,        \* chunks of the announcement (0: not built)
    sent,           \* announcement chunks the sink accepted, in order
    sinkError,      \* the outcome that ended the announcement's sending
    headChecks,     \* parent-repository HEAD checks made
    headStatus,     \* outcome of the HEAD check
    opAttempts,     \* operator notifications posted
    opAccepted,     \* operator notifications the sink accepted
    log,            \* the classification the task logged
    result          \* what the task returned (None: no new release id)

\* The text functions, applied to one input each: a string is the sequence of
\* its characters.
VARIABLES
    job,            \* the function the input is for
    fn,             \* the function that was applied ("none" before)
    text,           \* the input string
    max_length,     \* split_message_markdown's max_length (0: not a split)
    chunks,         \* the list split_message_markdown returned
    out,            \* the string the function returned
    placeholders    \* the placeholder tokens the function generated

\* The program run again (a scheduler starts it, lines 636-638).
VARIABLES
    run,            \* which run this is: first, second
    earlier         \* per repository, what the sink accepted in the run before

runVars == <<mainPc, stateFile, current_state, new_state, loadCalls, saveCalls,
             saveOutcome>>
textVars == <<job, fn, text, max_length, chunks, out, placeholders>>
histVars == <<run, earlier>>
mainVars == <<runVars, textVars, histVars>>
fetchVars == <<fetchAttempts, fetchStatus, fetchWaits, release_id, original_body,
               published_at>>
sumVars == <<sumAttempts, sumStatus, summary>>
sendVars == <<nChunks, sent, sinkError>>
headVars == <<headChecks, headStatus>>
opVars == <<opAttempts, opAccepted>>
taskVars == <<pc, last_id, fetchVars, sumVars, sendVars, headVars, opVars, log, result>>
vars == <<mainVars, taskVars>>

\* ----------------------------------------------------------- persisted state
\* A state map with no entry: load_state's {} (lines 142-154).
EmptyState == [r \in Repos |-> None]

\* load_state (lines 140-154): the file's map, or {} when the file is missing
\* or is not valid JSON.
LoadState(f) == IF f.status = "ok" THEN f.data ELSE EmptyState

\* save_state (lines 156-163): open(..., 'w') and json.dump; an IOError is
\* logged and swallowed.  A failed open leaves the file as it was, a failed
\* dump leaves it truncated.
SaveState(f, state, o) ==
    CASE o = "ok" -> [status |-> "ok", data |-> state]
      [] o = "open_failed" -> f
      [] OTHER -> [status |-> "corrupt", data |-> EmptyState]

\* ------------------------------------------------------------- call policies
\* A stop condition that lets one attempt too many through.
FetchStopOneLate(n) == n > FetchMaxAttempts

\* stop_after_attempt(3) at line 513: no further attempt after the n-th.
FetchStop(n) == n >= FetchMaxAttempts

\* raise_for_status inside the attempt for every error status, not only >= 500.
FetchRaisesOnAnyError(o) == o # "200"

\* What makes an attempt of the release fetch raise inside `with attempt`
\* (lines 514-518): a transport exception, or raise_for_status on a status
\* >= 500.  AsyncRetrying retries every raised exception.
FetchRaises(o) == o \in {"exc", "5xx"}

\* The larger and the smaller of two numbers (Python's max and min).
Max2(a, b) == IF a >= b THEN a ELSE b
Min2(a, b) == IF a <= b THEN a ELSE b

\* The exponent tenacity's wait_exponential uses after attempt n: n - 1 in the
\* releases that start the series at the multiplier, n in the older ones.
WaitExponents(n) == {n - 1, n}

\* tenacity's wait_exponential(multiplier, min, max), as called at lines 513
\* and 320, with exponent e: multiplier * 2^e clamped to [min, max].
WaitExponential(e, multiplier, lo, hi) ==
    Max2(Max2(0, lo), Min2(multiplier * 2^e, hi))

\* A stop condition that gives up after the second attempt.
SummaryStopEarly(n) == n >= SummaryMaxAttempts - 1

\* stop_after_attempt(3) at line 319.
SummaryStop(n) == n >= SummaryMaxAttempts

\* get_openrouter_summary_with_retry raises on every outcome but a usable
\* answer (lines 402-412), and retry_if_exception_type((Exception,)) at line
\* 321 retries whatever was raised.
SummaryRaises(o) == o # "ok"

\* A handler with no 404 branch: every status is logged as an API error.
OnHTTPStatusErrorNo404(status) ==
    IF status = "403" THEN [pc |-> "returned", log |-> "rate_limit"]
    ELSE [pc |-> "returned", log |-> "api_error"]

\* `except httpx.HTTPStatusError` of check_repo_for_updates (lines 569-586):
\* where the task goes and what it logs for the status the exception carries.
OnHTTPStatusError(status) ==
    CASE status = "404" -> [pc |-> "head", log |-> "none"]
      [] status = "403" -> [pc |-> "returned", log |-> "rate_limit"]
      [] OTHER -> [pc |-> "returned", log |-> "api_error"]

\* `except Exception` of check_repo_for_updates (lines 588-590).
OnException == [pc |-> "notify", log |-> "unknown_error"]

\* The same with no comparison of the release id with last_seen_id.
AfterFetchNoCompare(o, p, n, last) ==
    IF FetchRaises(o)
    THEN IF ~FetchStop(n) THEN [pc |-> "fetch_wait", log |-> "none"]
         ELSE IF o = "exc" THEN OnException
         ELSE OnHTTPStatusError(o)
    ELSE IF o # "200" THEN OnHTTPStatusError(o)
    ELSE IF p.kind = "malformed" THEN OnException
    ELSE [pc |-> "summary", log |-> "new_release"]

\* The same with the announcement built right after the comparison, no
\* summary asked for.
AfterFetchSkipsSummary(o, p, n, last) ==
    IF FetchRaises(o)
    THEN IF ~FetchStop(n) THEN [pc |-> "fetch_wait", log |-> "none"]
         ELSE IF o = "exc" THEN OnException
         ELSE OnHTTPStatusError(o)
    ELSE IF o # "200" THEN OnHTTPStatusError(o)
    ELSE IF p.kind = "malformed" THEN OnException
    ELSE IF p.id = last THEN [pc |-> "returned", log |-> "no_updates"]
    ELSE [pc |-> "message", log |-> "new_release"]

\* Lines 512-547 after attempt n of the release fetch ended with outcome o
\* (and release object p): retry, re-raise, raise_for_status at line 532,
\* parse the release object, compare its id with last_seen_id.
AfterFetch(o, p, n, last) ==
    IF FetchRaises(o)
    THEN IF ~FetchStop(n) THEN [pc |-> "fetch_wait", log |-> "none"]
         ELSE IF o = "exc" THEN OnException
         ELSE OnHTTPStatusError(o)
    ELSE IF o # "200" THEN OnHTTPStatusError(o)
    ELSE IF p.kind = "malformed" THEN OnException
    ELSE IF p.id = last THEN [pc |-> "returned", log |-> "no_updates"]
    ELSE [pc |-> "summary", log |-> "new_release"]

\* `elif result:` at line 625.
Truthy(x) == x # None /\ x # 0

\* Every result stored, a None as well.
AggregateEveryResult(state, results) == [r \in Repos |-> results[r]]

\* Lines 622-627: the results of the gathered tasks applied to new_state.
Aggregate(state, results) ==
    [r \in Repos |-> IF Truthy(results[r]) THEN results[r] ELSE state[r]]

\* A gather that also ends as soon as one task has ended in a failure.
GatherEndsOnFirstFailure ==
    \/ \A r \in Repos : pc[r] = "returned"
    \/ \E r \in Repos :
          pc[r] = "returned" /\ log[r] \in {"api_error", "unknown_error", "not_found"}

\* asyncio.gather at line 620 returns when every task has returned.
AllTasksDone == \A r \in Repos : pc[r] = "returned"

\* -------------------------------------------------------------------- Init
\* The state file at the start of the run: an earlier run recorded release
\* 100 of the first repository and has not seen a release of the others.
InitialFiles ==
    {[status |-> "ok", data |-> [r \in Repos |-> IF r = "r1" THEN 100 ELSE None]]}

\* The run before main's first step.
RunInit ==
    /\ mainPc = "start"
    /\ stateFile \in InitialFiles
    /\ current_state = EmptyState
    /\ new_state = EmptyState
    /\ loadCalls = 0
    /\ saveCalls = 0
    /\ saveOutcome = "none"
    /\ pc = [r \in Repos |-> "idle"]
    /\ last_id = [r \in Repos |-> None]
    /\ fetchAttempts = [r \in Repos |-> 0]
    /\ fetchStatus = [r \in Repos |-> "none"]
    /\ fetchWaits = [r \in Repos |-> <<>>]
    /\ release_id = [r \in Repos |-> None]
    /\ original_body = [r \in Repos |-> "none"]
    /\ published_at = [r \in Repos |-> "none"]
    /\ sumAttempts = [r \in Repos |-> 0]
    /\ sumStatus = [r \in Repos |-> "none"]
    /\ summary = [r \in Repos |-> "none"]
    /\ nChunks = [r \in Repos |-> 0]
    /\ sent = [r \in Repos |-> <<>>]
    /\ sinkError = [r \in Repos |-> "none"]
    /\ headChecks = [r \in Repos |-> 0]
    /\ headStatus = [r \in Repos |-> "none"]
    /\ opAttempts = [r \in Repos |-> 0]
    /\ opAccepted = [r \in Repos |-> 0]
    /\ log = [r \in Repos |-> "none"]
    /\ result = [r \in Repos |-> None]

\* No text function at work.
TextIdle ==
    /\ job = "none"
    /\ fn = "none"
    /\ text = <<>>
    /\ max_length = 0
    /\ chunks = <<>>
    /\ out = <<>>
    /\ placeholders = <<>>

\* No announcement of a repository's release got through to the sink.
NoAnnouncement == [id |-> None, nChunks |-> 0, sent |-> <<>>]

\* The first run: there is no run before it.
FirstRun ==
    /\ run = "first"
    /\ earlier = [r \in Repos |-> NoAnnouncement]

Init == RunInit /\ TextIdle /\ FirstRun

\* -------------------------------------------------------------------- main
\* main, lines 609-618: load the state, copy it, create one task per
\* repository with its last seen id; gather starts them, each runs to its
\* first await (the release GET).
MainStart ==
    /\ mainPc = "start"
    /\ current_state' = LoadState(stateFile)
    /\ new_state' = current_state'
    /\ loadCalls' = loadCalls + 1
    /\ last_id' = [r \in Repos |-> current_state'[r]]
    /\ pc' = [r \in Repos |-> "fetch"]
    /\ mainPc' = "gather"
    /\ UNCHANGED <<stateFile, saveCalls, saveOutcome, fetchVars, sumVars, sendVars,
                   headVars, opVars, log, result, textVars, histVars>>

\* A streaming merge: results are applied to new_state as tasks return.
MainGatherStreaming ==
    /\ mainPc = "gather"
    /\ \E r \in Repos : pc[r] = "returned"
    /\ new_state' = Aggregate(new_state, result)
    /\ mainPc' = IF AllTasksDone THEN "save" ELSE "gather"
    /\ UNCHANGED <<stateFile, current_state, loadCalls, saveCalls, saveOutcome, taskVars,
                   textVars, histVars>>

\* main, lines 620-627: gather returns, the results are applied to new_state.
MainGather ==
    /\ mainPc = "gather"
    /\ AllTasksDone
    /\ new_state' = Aggregate(new_state, result)
    /\ mainPc' = "save"
    /\ UNCHANGED <<stateFile, current_state, loadCalls, saveCalls, saveOutcome, taskVars,
                   textVars, histVars>>

\* main, line 629: save_state(new_state).
MainSave ==
    /\ mainPc = "save"
    /\ \E o \in SaveOutcomes :
          /\ stateFile' = SaveState(stateFile, new_state, o)
          /\ saveOutcome' = o
    /\ saveCalls' = saveCalls + 1
    /\ mainPc' = "done"
    /\ UNCHANGED <<current_state, new_state, loadCalls, taskVars, textVars, histVars>>

\* ------------------------------------------------- check_repo_for_updates
\* One attempt of the release fetch (line 515) and everything up to the next
\* await (lines 516-551, 569-590).
FetchAttempt(r) ==
    /\ mainPc = "gather"
    /\ pc[r] = "fetch"
    /\ \E o \in FetchOutcomes :
       \E p \in (IF o = "200" THEN Payloads ELSE {NoPayload}) :
          LET n == fetchAttempts[r] + 1
              next == AfterFetch(o, p, n, last_id[r])
              goes == next.pc = "summary"
          IN /\ fetchAttempts' = [fetchAttempts EXCEPT ![r] = n]
             /\ fetchStatus' = [fetchStatus EXCEPT ![r] = o]
             /\ fetchWaits' = fetchWaits
             /\ release_id' = [release_id EXCEPT ![r] = p.id]
             /\ original_body' = [original_body EXCEPT ![r] =
                    IF ~goes THEN "none" ELSE IF p.kind = "nobody" THEN "nodesc" ELSE "text"]
             /\ published_at' = [published_at EXCEPT ![r] =
                    IF ~goes THEN "none" ELSE IF p.kind = "nulldate" THEN "null" ELSE "date"]
             /\ pc' = [pc EXCEPT ![r] = next.pc]
             /\ log' = [log EXCEPT ![r] = next.log]
    /\ UNCHANGED <<mainVars, last_id, sumVars, sendVars, headVars, opVars, result>>

\* A backoff sleep after which the retry loop starts over, its attempts
\* forgotten.
FetchWaitRestarts(r) ==
    /\ mainPc = "gather"
    /\ pc[r] = "fetch_wait"
    /\ fetchAttempts' = [fetchAttempts EXCEPT ![r] = 0]
    /\ pc' = [pc EXCEPT ![r] = "fetch"]
    /\ UNCHANGED <<mainVars, last_id, fetchStatus, fetchWaits, release_id,
                   original_body, published_at, sumVars, sendVars, headVars, opVars,
                   log, result>>

\* The backoff sleep of AsyncRetrying between two attempts (line 513): the
\* wait wait_exponential(min=4, max=10) gives after the attempt that failed.
FetchWait(r) ==
    /\ mainPc = "gather"
    /\ pc[r] = "fetch_wait"
    /\ \E e \in WaitExponents(fetchAttempts[r]) :
          fetchWaits' = [fetchWaits EXCEPT ![r] =
              Append(@, WaitExponential(e, 1, FetchWaitMin, FetchWaitMax))]
    /\ pc' = [pc EXCEPT ![r] = "fetch"]
    /\ UNCHANGED <<mainVars, last_id, fetchAttempts, fetchStatus, release_id,
                   original_body, published_at, sumVars, sendVars, headVars, opVars,
                   log, result>>

\* The task's variables a step of the summary leaves alone.
SummaryFrame(r) ==
    /\ fetchAttempts' = [fetchAttempts EXCEPT ![r] = 0]
    /\ fetchWaits' = [fetchWaits EXCEPT ![r] = <<>>]
    /\ UNCHANGED <<mainVars, last_id, fetchStatus, release_id, original_body,
                   published_at, sendVars, headVars, opVars, log, result>>

\* get_openrouter_summary_with_retry, lines 330-331: no description, no call.
SummaryNoDescription(r) ==
    /\ mainPc = "gather"
    /\ pc[r] = "summary"
    /\ original_body[r] = "nodesc"
    /\ summary' = [summary EXCEPT ![r] = "nodesc"]
    /\ pc' = [pc EXCEPT ![r] = "message"]
    /\ UNCHANGED <<sumAttempts, sumStatus>>
    /\ SummaryFrame(r)

\* One attempt of the summary call (lines 367-412) in the worker thread; after
\* the last one get_openrouter_summary builds the fallback (lines 418-430).
SummaryAttempt(r) ==
    /\ mainPc = "gather"
    /\ pc[r] = "summary"
    /\ original_body[r] = "text"
    /\ \E o \in SummaryOutcomes :
          LET n == sumAttempts[r] + 1 IN
          /\ sumAttempts' = [sumAttempts EXCEPT ![r] = n]
          /\ sumStatus' = [sumStatus EXCEPT ![r] = o]
          /\ IF ~SummaryRaises(o)
             THEN /\ summary' = [summary EXCEPT ![r] = "ai"]
                  /\ pc' = [pc EXCEPT ![r] = "message"]
             ELSE IF SummaryStop(n)
             THEN /\ summary' = [summary EXCEPT ![r] = "fallback"]
                  /\ pc' = [pc EXCEPT ![r] = "message"]
             ELSE /\ summary' = summary
                  /\ pc' = [pc EXCEPT ![r] = "summary_wait"]
    /\ SummaryFrame(r)

\* The backoff sleep of the retry decorator (line 320).
SummaryWait(r) ==
    /\ mainPc = "gather"
    /\ pc[r] = "summary_wait"
    /\ pc' = [pc EXCEPT ![r] = "summary"]
    /\ UNCHANGED <<mainVars, last_id, fetchVars, sumVars, sendVars, headVars, opVars,
                   log, result>>

\* Lines 553-566 and 443: the announcement is built and split into chunks;
\* published_at[:10] raises on a null date.
BuildMessage(r) ==
    /\ mainPc = "gather"
    /\ pc[r] = "message"
    /\ IF published_at[r] = "null"
       THEN /\ pc' = [pc EXCEPT ![r] = OnException.pc]
            /\ log' = [log EXCEPT ![r] = OnException.log]
            /\ nChunks' = nChunks
       ELSE /\ \E n \in 1..MaxChunks : nChunks' = [nChunks EXCEPT ![r] = n]
            /\ pc' = [pc EXCEPT ![r] = "send"]
            /\ log' = log
    /\ sumAttempts' = [sumAttempts EXCEPT ![r] = 0]
    /\ sumStatus' = [sumStatus EXCEPT ![r] = "none"]
    /\ UNCHANGED <<mainVars, last_id, fetchVars, summary, sent, sinkError, headVars,
                   opVars, result>>

\* send_telegram_message, lines 450-473, for the announcement: the POST of
\* the next chunk.  An error status or transport exception is re-raised into
\* check_repo_for_updates (lines 569-590); the only chunk's acceptance returns
\* the release id (line 567).
SendChunk(r) ==
    /\ mainPc = "gather"
    /\ pc[r] = "send"
    /\ \E o \in SinkOutcomes :
          IF o = "200"
          THEN /\ sent' = [sent EXCEPT ![r] = Append(@, Len(@) + 1)]
               /\ sinkError' = sinkError
               /\ log' = log
               /\ IF nChunks[r] > 1
                  THEN /\ pc' = [pc EXCEPT ![r] = "pause"]
                       /\ result' = result
                  ELSE /\ pc' = [pc EXCEPT ![r] = "returned"]
                       /\ result' = [result EXCEPT ![r] = release_id[r]]
          ELSE LET next == IF o = "exc" THEN OnException ELSE OnHTTPStatusError(o)
               IN /\ sinkError' = [sinkError EXCEPT ![r] = o]
                  /\ pc' = [pc EXCEPT ![r] = next.pc]
                  /\ log' = [log EXCEPT ![r] = next.log]
                  /\ sent' = sent
                  /\ result' = result
    /\ UNCHANGED <<mainVars, last_id, fetchVars, sumVars, nChunks, headVars, opVars>>

\* A pause after which the task returns whatever is left to send.
SendPauseReturns(r) ==
    /\ mainPc = "gather"
    /\ pc[r] = "pause"
    /\ pc' = [pc EXCEPT ![r] = "returned"]
    /\ result' = [result EXCEPT ![r] = release_id[r]]
    /\ UNCHANGED <<mainVars, last_id, fetchVars, sumVars, sendVars, headVars, opVars, log>>

\* asyncio.sleep(0.5) after each chunk of a multi-chunk message (line 464);
\* after the last one the task returns the release id (line 567).
SendPause(r) ==
    /\ mainPc = "gather"
    /\ pc[r] = "pause"
    /\ IF Len(sent[r]) < nChunks[r]
       THEN /\ pc' = [pc EXCEPT ![r] = "send"]
            /\ result' = result
       ELSE /\ pc' = [pc EXCEPT ![r] = "returned"]
            /\ result' = [result EXCEPT ![r] = release_id[r]]
    /\ UNCHANGED <<mainVars, last_id, fetchVars, sumVars, sendVars, headVars, opVars, log>>

\* Lines 572-582: the HEAD check of the repository after a 404.
HeadCheck(r) ==
    /\ mainPc = "gather"
    /\ pc[r] = "head"
    /\ \E o \in HeadOutcomes :
          /\ headStatus' = [headStatus EXCEPT ![r] = o]
          /\ IF o = "200"
             THEN /\ pc' = [pc EXCEPT ![r] = "returned"]
                  /\ log' = [log EXCEPT ![r] = "no_releases"]
             ELSE /\ pc' = [pc EXCEPT ![r] = "notify"]
                  /\ log' = [log EXCEPT ![r] = "not_found"]
    /\ headChecks' = [headChecks EXCEPT ![r] = @ + 1]
    /\ UNCHANGED <<mainVars, last_id, fetchVars, sumVars, sendVars, opVars, result>>

\* An operator notification with no handler of its own: a POST that fails
\* raises out of check_repo_for_updates.
NotifyPropagates(r) ==
    /\ mainPc = "gather"
    /\ pc[r] = "notify"
    /\ \E o \in SinkOutcomes :
          /\ opAccepted' = [opAccepted EXCEPT ![r] = IF o = "200" THEN @ + 1 ELSE @]
          /\ pc' = [pc EXCEPT ![r] = IF o = "200" THEN "returned" ELSE "raised"]
    /\ opAttempts' = [opAttempts EXCEPT ![r] = @ + 1]
    /\ UNCHANGED <<mainVars, last_id, fetchVars, sumVars, sendVars, headVars, log, result>>

\* send_error_notification (lines 475-485): one POST of the operator message;
\* whatever it raises is logged and swallowed, and the task returns None.
Notify(r) ==
    /\ mainPc = "gather"
    /\ pc[r] = "notify"
    /\ \E o \in SinkOutcomes :
          opAccepted' = [opAccepted EXCEPT ![r] = IF o = "200" THEN @ + 1 ELSE @]
    /\ opAttempts' = [opAttempts EXCEPT ![r] = @ + 1]
    /\ pc' = [pc EXCEPT ![r] = "returned"]
    /\ UNCHANGED <<mainVars, last_id, fetchVars, sumVars, sendVars, headVars, log, result>>

Task(r) ==
    \/ FetchAttempt(r)
    \/ FetchWait(r)
    \/ SummaryNoDescription(r)
    \/ SummaryAttempt(r)
    \/ SummaryWait(r)
    \/ BuildMessage(r)
    \/ SendChunk(r)
    \/ SendPause(r)
    \/ HeadCheck(r)
    \/ Notify(r)

Next ==
    \/ MainStart
    \/ MainGather
    \/ MainSave
    \/ \E r \in Repos : Task(r)

Spec == Init /\ [][Next]_vars

\* The scheduling of a run.  The event loop resumes every coroutine that is
\* ready: main (asyncio.run at line 638), and each task gather started (line
\* 620).  Every call a task awaits ends, with an answer or an exception: the
\* GET, POST and HEAD have timeouts (lines 515, 458, 574), the summary call
\* runs in its own thread (line 551), and the sleeps of the two retry loops
\* and of the sender are finite (lines 513, 320, 464).
Fairness ==
    /\ WF_vars(MainStart)
    /\ WF_vars(MainGather)
    /\ WF_vars(MainSave)
    /\ \A r \in Repos : WF_vars(Task(r))

LiveSpec == Spec /\ Fairness

\* ------------------------------------------------------------------ two runs
\* The release object the release source reports for a repository in both
\* runs: a release the state file does not know, with a description for the
\* first repository and without one for the others.
SteadyRelease(r) == [kind |-> IF r = "r1" THEN "ok" ELSE "nobody", id |-> 101]

\* An attempt of the release fetch against that source: the source answers
\* with the repository's release object, or with a server error.
SteadyFetch(r) ==
    /\ FetchAttempt(r)
    /\ fetchStatus'[r] \in {"5xx", "200"}
    /\ fetchStatus'[r] = "200" =>
          /\ release_id'[r] = SteadyRelease(r).id
          /\ pc'[r] = "summary" =>
                /\ published_at'[r] = "date"
                /\ original_body'[r] =
                      (IF SteadyRelease(r).kind = "nobody" THEN "nodesc" ELSE "text")

\* check_repo_for_updates against that source.
SteadyTask(r) ==
    \/ SteadyFetch(r)
    \/ FetchWait(r)
    \/ SummaryNoDescription(r)
    \/ SummaryAttempt(r)
    \/ SummaryWait(r)
    \/ BuildMessage(r)
    \/ SendChunk(r)
    \/ SendPause(r)
    \/ HeadCheck(r)
    \/ Notify(r)

\* What the run that ends leaves of a repository's announcement: the release
\* announced and the chunks the sink accepted.
Accepted(r) ==
    IF sent[r] = <<>> THEN NoAnnouncement
    ELSE [id |-> release_id[r], nChunks |-> nChunks[r], sent |-> sent[r]]

\* The program is started again after a run that has ended (lines 636-638).
\* The new process has the state file the run left and nothing else of it.
NextRun ==
    /\ mainPc = "done"
    /\ run = "first"
    /\ run' = "second"
    /\ earlier' = [r \in Repos |-> Accepted(r)]
    /\ mainPc' = "start"
    /\ current_state' = EmptyState
    /\ new_state' = EmptyState
    /\ loadCalls' = 0
    /\ saveCalls' = 0
    /\ saveOutcome' = "none"
    /\ pc' = [r \in Repos |-> "idle"]
    /\ last_id' = [r \in Repos |-> None]
    /\ fetchAttempts' = [r \in Repos |-> 0]
    /\ fetchStatus' = [r \in Repos |-> "none"]
    /\ fetchWaits' = [r \in Repos |-> <<>>]
    /\ release_id' = [r \in Repos |-> None]
    /\ original_body' = [r \in Repos |-> "none"]
    /\ published_at' = [r \in Repos |-> "none"]
    /\ sumAttempts' = [r \in Repos |-> 0]
    /\ sumStatus' = [r \in Repos |-> "none"]
    /\ summary' = [r \in Repos |-> "none"]
    /\ nChunks' = [r \in Repos |-> 0]
    /\ sent' = [r \in Repos |-> <<>>]
    /\ sinkError' = [r \in Repos |-> "none"]
    /\ headChecks' = [r \in Repos |-> 0]
    /\ headStatus' = [r \in Repos |-> "none"]
    /\ opAttempts' = [r \in Repos |-> 0]
    /\ opAccepted' = [r \in Repos |-> 0]
    /\ log' = [r \in Repos |-> "none"]
    /\ result' = [r \in Repos |-> None]
    /\ UNCHANGED <<stateFile, textVars>>

TwoRunNext ==
    \/ MainStart
    \/ MainGather
    \/ MainSave
    \/ \E r \in Repos : SteadyTask(r)
    \/ NextRun

TwoRunSpec == Init /\ [][TwoRunNext]_vars

\* ============================================================ text functions
\* ---------------------------------------------------------------- characters
NL == "\n"
\* The backquote character, which a TLA+ string cannot hold.
Backquote == "BQ"
\* A list of characters to escape that lacks the backslash.
EscapeCharsNoBackslash ==
    {"_", "*", "[", "]", "(", ")", "~", Backquote, ">", "#", "+", "-", "=", "|",
     "{", "}", ".", "!"}

\* escape_chars of escape_markdown_v2 (line 254).
EscapeCharsV2 ==
    {"\\", "_", "*", "[", "]", "(", ")", "~", Backquote, ">", "#", "+", "-", "=", "|",
     "{", "}", ".", "!"}
\* escape_chars of convert_ai_markdown_to_telegram (line 215): no backslash.
EscapeCharsAI ==
    {"_", "*", "[", "]", "(", ")", "~", Backquote, ">", "#", "+", "-", "=", "|",
     "{", "}", ".", "!"}
\* What \s matches among the characters of the inputs.
Whitespace == {NL, " "}

\* -------------------------------------------------------- string primitives
\* The least element of a non-empty set of numbers.
Least(S) == CHOOSE x \in S : \A y \in S : x <= y

\* The positions of character c in s.
Positions(s, c) == {i \in 1..Len(s) : s[i] = c}

\* s[a..b] holds no newline: what `.` may match.
NoNewline(s, a, b) == \A q \in a..b : s[q] # NL

\* pat occurs in s at position i.
OccursAt(s, pat, i) ==
    /\ i + Len(pat) - 1 <= Len(s)
    /\ \A d \in 1..Len(pat) : s[i + d - 1] = pat[d]

\* pat occurs somewhere in s (Python's `pat in s`).
Contains(s, pat) == \E i \in 1..Len(s) : OccursAt(s, pat, i)

\* s ends with pat (str.endswith).
EndsWith(s, pat) == Len(pat) <= Len(s) /\ OccursAt(s, pat, Len(s) - Len(pat) + 1)

\* str.replace(pat, rep): every occurrence, left to right, not overlapping.
RECURSIVE StrReplace(_, _, _)
StrReplace(s, pat, rep) ==
    LET at == {i \in 1..Len(s) : OccursAt(s, pat, i)} IN
    IF at = {} THEN s
    ELSE LET i == Least(at) IN
         SubSeq(s, 1, i - 1) \o rep
             \o StrReplace(SubSeq(s, i + Len(pat), Len(s)), pat, rep)

\* str(n) of a number that is not negative.
RECURSIVE Decimal(_)
Decimal(n) ==
    IF n < 10 THEN <<ToString(n)>> ELSE Decimal(n \div 10) \o <<ToString(n % 10)>>

\* Every character of s that is in the set R gets a backslash before it: the
\* loop of lines 218-222 and the re.sub of line 255.
EscapeEach(s, R) ==
    LET rp == {i \in 1..Len(s) : s[i] \in R}
        marker == {p + Cardinality({q \in rp : q < p}) : p \in rp}
    IN [k \in 1..(Len(s) + Cardinality(rp)) |->
            IF k \in marker THEN "\\"
            ELSE s[k - Cardinality({m \in marker : m <= k})]] \o <<>>

\* ------------------------------------------------------- escape_markdown_v2
\* uuid.uuid4().hex has 32 hexadecimal digits (line 250).
UuidHexLen == 32

\* The hex of the k-th uuid drawn: the uuids drawn differ from one another.
UuidHex(k) == [i \in 1..UuidHexLen |-> IF i = UuidHexLen THEN ToString(k % 10) ELSE "0"]

\* f"__LINK_{uuid.uuid4().hex}__" (line 250).
LinkPlaceholderV2(k) == <<"_", "_", "L", "I", "N", "K", "_">> \o UuidHex(k) \o <<"_", "_">>

\* The leftmost match of \[.*?\]\(.*?\) (line 253) in s: `[` at .open, `](` at
\* .mid, `)` at .close; .open = 0 when there is none.  Both groups are lazy
\* and match no newline.
LazyLinkMatch(s) ==
    LET Closes(j) == {k \in Positions(s, ")") : k > j + 1 /\ NoNewline(s, j + 2, k - 1)}
        Mids(i) == {j \in Positions(s, "]") :
                       /\ j > i /\ j < Len(s) /\ s[j + 1] = "("
                       /\ NoNewline(s, i + 1, j - 1)
                       /\ Closes(j) # {}}
        opens == {i \in Positions(s, "[") : Mids(i) # {}}
    IN IF opens = {} THEN [open |-> 0, mid |-> 0, close |-> 0]
       ELSE LET i == Least(opens)
                j == Least(Mids(i))
            IN [open |-> i, mid |-> j, close |-> Least(Closes(j))]

\* re.sub(r'\[.*?\]\(.*?\)', link_replacer, text) at line 253, k links
\* replaced already: the text with each link replaced by a new placeholder,
\* and the list of (placeholder, link) pairs.
RECURSIVE MaskLinksV2(_, _)
MaskLinksV2(s, k) ==
    LET m == LazyLinkMatch(s) IN
    IF m.open = 0 THEN [text |-> s, links |-> <<>>]
    ELSE LET rest == MaskLinksV2(SubSeq(s, m.close + 1, Len(s)), k + 1)
             token == LinkPlaceholderV2(k)
         IN [text |-> SubSeq(s, 1, m.open - 1) \o token \o rest.text,
             links |-> <<<<token, SubSeq(s, m.open, m.close)>>>> \o rest.links]

\* The loop of lines 257-258: each placeholder replaced by its saved text.
RECURSIVE Restore(_, _)
Restore(s, saved) ==
    IF saved = <<>> THEN s
    ELSE Restore(StrReplace(s, saved[1][1], saved[1][2]), Tail(saved))

\* escape_markdown_v2 (lines 242-261).
escape_markdown_v2(s) ==
    IF s = <<>> THEN <<>>
    ELSE LET masked == MaskLinksV2(s, 0)
         IN Restore(EscapeEach(masked.text, EscapeCharsV2), masked.links)

\* The placeholders escape_markdown_v2 generates for s.
PlaceholdersV2(s) ==
    LET links == MaskLinksV2(s, 0).links IN [i \in 1..Len(links) |-> links[i][1]]

\* --------------------------------------------------- split_message_markdown
\* str.split(sep): the pieces between the occurrences of sep, found left to
\* right and not overlapping.
RECURSIVE StrSplit(_, _)
StrSplit(s, sep) ==
    LET at == {i \in 1..Len(s) : OccursAt(s, sep, i)} IN
    IF at = {} THEN <<s>>
    ELSE LET i == Least(at) IN
         <<SubSeq(s, 1, i - 1)>> \o StrSplit(SubSeq(s, i + Len(sep), Len(s)), sep)

\* Line 284: the paragraph fits the current chunk.
FitsParagraph(cur, paragraph, max) == Len(cur) + Len(paragraph) + 2 <= max

\* Line 296: the line fits the current chunk.
FitsLine(cur, line, max) == Len(cur) + Len(line) + 1 <= max

\* A join that puts no separator between the chunk and the piece.
JoinNoSeparator(cur, sep, piece) == cur \o piece

\* Lines 285-287 and 297-299: the piece joins the current chunk, after the
\* separator when the chunk is not empty.
Join(cur, sep, piece) == IF cur # <<>> THEN cur \o sep \o piece ELSE piece

\* Lines 295-304: the lines of a paragraph packed into chunks.
RECURSIVE PackLines(_, _, _)
PackLines(lines, st, max) ==
    IF lines = <<>> THEN st
    ELSE LET line == Head(lines) IN
         PackLines(Tail(lines),
                   IF FitsLine(st.cur, line, max)
                   THEN [chunks |-> st.chunks, cur |-> Join(st.cur, <<NL>>, line)]
                   ELSE [chunks |-> IF st.cur # <<>> THEN Append(st.chunks, st.cur)
                                    ELSE st.chunks,
                         cur |-> line],
                   max)

\* Lines 282-304: the paragraphs packed into chunks.
RECURSIVE PackParagraphs(_, _, _)
PackParagraphs(paragraphs, st, max) ==
    IF paragraphs = <<>> THEN st
    ELSE LET paragraph == Head(paragraphs) IN
         PackParagraphs(Tail(paragraphs),
                        IF FitsParagraph(st.cur, paragraph, max)
                        THEN [chunks |-> st.chunks,
                              cur |-> Join(st.cur, <<NL, NL>>, paragraph)]
                        ELSE IF st.cur # <<>>
                        THEN [chunks |-> Append(st.chunks, st.cur), cur |-> paragraph]
                        ELSE PackLines(StrSplit(paragraph, <<NL>>), st, max),
                        max)

\* The five Cyrillic letters of the word in the part indicator (line 313).
PartWord == <<"Che", "A", "Es", "Te", "Soft">>

\* Line 313: what is appended to chunk i of n.
PartIndicator(i, n) ==
    <<NL, NL, "_">>
        \o escape_markdown_v2(<<"(">> \o PartWord \o <<" ">> \o Decimal(i) \o <<"/">>
                                  \o Decimal(n) \o <<")">>)
        \o <<"_">>

\* Indicators on every list of chunks, a list of one as well.
NeedsIndicatorsAlways(n) == n >= 1

\* Line 311: indicators are added when the message was split.
NeedsIndicators(n) == n > 1

\* split_message_markdown (lines 264-315).
split_message_markdown(s, max) ==
    IF Len(s) <= max THEN <<s>>
    ELSE LET st == PackParagraphs(StrSplit(s, <<NL, NL>>),
                                  [chunks |-> <<>>, cur |-> <<>>], max)
             cs == IF st.cur # <<>> THEN Append(st.chunks, st.cur) ELSE st.chunks
         IN IF NeedsIndicators(Len(cs))
            THEN [i \in 1..Len(cs) |-> cs[i] \o PartIndicator(i, Len(cs))] \o <<>>
            ELSE cs

\* ------------------------------------------- convert_ai_markdown_to_telegram
\* No match.
NoMatch == [open |-> 0, close |-> 0, saved |-> <<>>]

\* The first position after i that holds character c (0: none).
NextOf(s, c, i) ==
    LET after == {q \in Positions(s, c) : q > i} IN
    IF after = {} THEN 0 ELSE Least(after)

\* The leftmost match of \[([^\]]+)\]\(([^\)]+)\) (line 191): a label of one
\* or more characters up to the first `]`, then `(`, then one or more
\* characters up to the first `)`.  The whole match is saved (line 187).
StrictLinkMatch(s) ==
    LET Mid(i) == NextOf(s, "]", i)
        Close(i) == NextOf(s, ")", Mid(i) + 1)
        opens == {i \in Positions(s, "[") :
                     /\ Mid(i) > i + 1
                     /\ Mid(i) < Len(s) /\ s[Mid(i) + 1] = "("
                     /\ Close(i) > Mid(i) + 2}
    IN IF opens = {} THEN NoMatch
       ELSE LET i == Least(opens)
            IN [open |-> i, close |-> Close(i), saved |-> SubSeq(s, i, Close(i))]

\* The leftmost match of \*\*([^\*]+)\*\* (line 202): two asterisks, one or
\* more characters that are no asterisk, two asterisks.  Saved is the content
\* between single asterisks (lines 198-199).
BoldMatch(s) ==
    LET End(i) == NextOf(s, "*", i + 1)
        opens == {i \in Positions(s, "*") :
                     /\ i + 2 <= Len(s) /\ s[i + 1] = "*" /\ s[i + 2] # "*"
                     /\ End(i) > 0
                     /\ End(i) < Len(s) /\ s[End(i) + 1] = "*"}
    IN IF opens = {} THEN NoMatch
       ELSE LET i == Least(opens)
            IN [open |-> i, close |-> End(i) + 1,
                saved |-> <<"*">> \o SubSeq(s, i + 2, End(i) - 1) \o <<"*">>]

\* The leftmost match of the inline code pattern (line 211): a backquote, one
\* or more characters that are no backquote, a backquote.  The whole match is
\* saved (line 208).
CodeMatch(s) ==
    LET End(i) == NextOf(s, Backquote, i)
        opens == {i \in Positions(s, Backquote) : End(i) > i + 1}
    IN IF opens = {} THEN NoMatch
       ELSE LET i == Least(opens)
            IN [open |-> i, close |-> End(i), saved |-> SubSeq(s, i, End(i))]

\* The pattern of each kind of protected span.
MatchAI(kind, s) ==
    CASE kind = "LINK" -> StrictLinkMatch(s)
      [] kind = "BOLD" -> BoldMatch(s)
      [] OTHER -> CodeMatch(s)

\* f"LINK_PH_{len(links)}", f"BOLD_PH_{len(bolds)}", f"CODE_PH_{len(codes)}"
\* (lines 186, 196, 207).
PlaceholderAI(kind, k) ==
    (CASE kind = "LINK" -> <<"L", "I", "N", "K">>
       [] kind = "BOLD" -> <<"B", "O", "L", "D">>
       [] OTHER -> <<"C", "O", "D", "E">>)
        \o <<"_", "P", "H", "_">> \o Decimal(k)

\* re.sub(pattern, save_link | save_bold | save_code, text) (lines 191, 202,
\* 211), k spans saved already: the text with each span replaced by its
\* placeholder, and the list of (placeholder, saved text) pairs.
RECURSIVE MaskAI(_, _, _)
MaskAI(kind, s, k) ==
    LET m == MatchAI(kind, s) IN
    IF m.open = 0 THEN [text |-> s, saved |-> <<>>]
    ELSE LET rest == MaskAI(kind, SubSeq(s, m.close + 1, Len(s)), k + 1)
             token == PlaceholderAI(kind, k)
         IN [text |-> SubSeq(s, 1, m.open - 1) \o token \o rest.text,
             saved |-> <<<<token, m.saved>>>> \o rest.saved]

\* convert_ai_markdown_to_telegram (lines 166-240): links, bold spans and
\* code spans are replaced by placeholders, the rest is escaped, and the code
\* spans, bold spans and links are put back in this order.
convert_ai_markdown_to_telegram(s) ==
    IF s = <<>> THEN <<>>
    ELSE LET links == MaskAI("LINK", s, 0)
             bolds == MaskAI("BOLD", links.text, 0)
             codes == MaskAI("CODE", bolds.text, 0)
             escaped == EscapeEach(codes.text, EscapeCharsAI)
         IN Restore(Restore(Restore(escaped, codes.saved), bolds.saved), links.saved)

\* The placeholders convert_ai_markdown_to_telegram generates for s.
PlaceholdersAI(s) ==
    LET links == MaskAI("LINK", s, 0)
        bolds == MaskAI("BOLD", links.text, 0)
        codes == MaskAI("CODE", bolds.text, 0)
        all == links.saved \o bolds.saved \o codes.saved
    IN [i \in 1..Len(all) |-> all[i][1]] \o <<>>

\* ------------------------------------------------------ the fallback summary
\* re.sub(r'\[(.*?)\]\((.*?)\)', r'\1', release_notes) at line 423: every
\* link replaced by its label.
RECURSIVE LinksToLabels(_)
LinksToLabels(s) ==
    LET m == LazyLinkMatch(s) IN
    IF m.open = 0 THEN s
    ELSE SubSeq(s, 1, m.open - 1) \o SubSeq(s, m.open + 1, m.mid - 1)
             \o LinksToLabels(SubSeq(s, m.close + 1, Len(s)))

\* The character class of line 424.
MarkupChars == {"*", "_", Backquote, "~", "#", ">"}

\* re.sub(r'[*_`~#>]', '', plain_text) at line 424.
DropMarkup(s) == SelectSeq(s, LAMBDA c : c \notin MarkupChars)

\* s[a..b] is whitespace only.
AllWhitespace(s, a, b) == \A q \in a..b : s[q] \in Whitespace

\* re.sub(r'\n\s*\n+', '\n', plain_text) at line 425: in a run of whitespace
\* with two or more newlines, what follows the first newline up to the last
\* one is dropped.
CollapseBlankLines(s) ==
    LET newlines == Positions(s, NL)
        dropped == {p \in 1..Len(s) :
                       /\ s[p] \in Whitespace
                       /\ \E f \in newlines : f < p /\ AllWhitespace(s, f, p)
                       /\ \E l \in newlines : l >= p /\ AllWhitespace(s, p, l)}
        kept == SelectSeq([q \in 1..Len(s) |-> <<q, s[q]>>] \o <<>>,
                          LAMBDA e : e[1] \notin dropped)
    IN [q \in 1..Len(kept) |-> kept[q][2]] \o <<>>

\* str.strip() at line 425.
Strip(s) ==
    IF AllWhitespace(s, 1, Len(s)) THEN <<>>
    ELSE LET first == CHOOSE i \in 1..Len(s) :
                          s[i] \notin Whitespace /\ AllWhitespace(s, 1, i - 1)
             last == CHOOSE i \in 1..Len(s) :
                         s[i] \notin Whitespace /\ AllWhitespace(s, i + 1, Len(s))
         IN SubSeq(s, first, last)

\* Lines 423-425: the release notes cleaned of links and markup.
CleanNotes(s) == Strip(CollapseBlankLines(DropMarkup(LinksToLabels(s))))

\* Lines 427-428: plain_text[:497] + "..." when it is longer than 500.
Truncate(s) ==
    IF Len(s) > FallbackBudget THEN SubSeq(s, 1, FallbackKept) \o <<".", ".", ".">>
    ELSE s

\* get_openrouter_summary's fallback (lines 422-430).
FallbackSummaryText(s) == escape_markdown_v2(Truncate(CleanNotes(s)))

\* ------------------------------------------------- the text functions at work
\* The strings of at most n characters of the alphabet.
Strings(alphabet, n) == UNION {[1..k -> alphabet] : k \in 0..n}

\* The texts split_message_markdown is applied to: lines of two letters,
\* single and double newlines.
SplitTexts == Strings({"a", "b", NL}, MaxTextLen)

\* The strings escape_markdown_v2 is applied to: a letter, reserved
\* characters (the backslash among them) and the characters of a link.
EscapeTexts == Strings({"a", ".", "\\", "[", "]", "(", ")"}, MaxEscapeLen)

\* A link, a bold span and an inline code span as an AI summary writes them,
\* each with a reserved character inside.
LinkSpan == <<"[", "a", "]", "(", "u", ".", "x", ")">>
BoldSpan == <<"*", "*", "b", "*", "*">>
CodeSpan == <<Backquote, "c", ".", Backquote>>

\* The parts of a summary: the three spans and plain characters, reserved
\* ones among them.
SummaryParts == {LinkSpan, BoldSpan, CodeSpan, <<"t">>, <<".">>, <<"!">>, <<" ">>}

\* The parts of ps one after the other.
RECURSIVE Flatten(_)
Flatten(ps) == IF ps = <<>> THEN <<>> ELSE Head(ps) \o Flatten(Tail(ps))

\* The summaries convert_ai_markdown_to_telegram is applied to.
ConvertTexts == {Flatten(ps) : ps \in Strings(SummaryParts, MaxParts)}

\* What a release description starts and ends with: nothing, a link, a link
\* pattern with markup inside, an emphasis, three dots, a blank line between
\* two words, a parenthesis.
NotesParts ==
    {<<>>,
     <<"[", "a", "]", "(", "u", ")">>,
     <<"[", "a", "]", "*", "(", "u", ")">>,
     <<"*", "b", "*">>,
     <<".", ".", ".">>,
     <<"a", NL, " ", NL, "a">>,
     <<"(", "a", ")">>}

\* n letters.
Fill(n) == [i \in 1..n |-> "x"] \o <<>>

\* The release descriptions the fallback summary is built from: short ones,
\* and ones about as long as the budget.
NotesTexts ==
    {pre \o Fill(n) \o post :
        pre \in NotesParts, post \in NotesParts,
        n \in {0} \cup ((FallbackKept - 8)..(FallbackBudget + MaxOver))}

\* One input for one of the text functions, nothing computed yet.
TextInit ==
    /\ RunInit
    /\ FirstRun
    /\ fn = "none"
    /\ chunks = <<>>
    /\ out = <<>>
    /\ placeholders = <<>>
    /\ \/ job = "split" /\ text \in SplitTexts /\ max_length \in 1..MaxLimit
       \/ job = "escape" /\ text \in EscapeTexts /\ max_length = 0
       \/ job = "convert" /\ text \in ConvertTexts /\ max_length = 0
       \/ job = "fallback" /\ text \in NotesTexts /\ max_length = 0

\* escape_markdown_v2(text) is called (lines 557-559, 480, 430, 313).
EscapeText ==
    /\ job = "escape"
    /\ fn = "none"
    /\ out' = escape_markdown_v2(text)
    /\ placeholders' = PlaceholdersV2(text)
    /\ fn' = "escape"
    /\ UNCHANGED <<job, text, max_length, chunks, runVars, taskVars, histVars>>

\* convert_ai_markdown_to_telegram(summary) is called on the AI's answer
\* (line 406).
ConvertSummary ==
    /\ job = "convert"
    /\ fn = "none"
    /\ out' = convert_ai_markdown_to_telegram(text)
    /\ placeholders' = PlaceholdersAI(text)
    /\ fn' = "convert"
    /\ UNCHANGED <<job, text, max_length, chunks, runVars, taskVars, histVars>>

\* split_message_markdown(text, max_length) is called (line 443).
SplitMessage ==
    /\ job = "split"
    /\ fn = "none"
    /\ chunks' = split_message_markdown(text, max_length)
    /\ fn' = "split"
    /\ UNCHANGED <<job, text, max_length, out, placeholders, runVars, taskVars, histVars>>

\* get_openrouter_summary builds the fallback summary from the release
\* description (lines 422-430).
FallbackSummary ==
    /\ job = "fallback"
    /\ fn = "none"
    /\ out' = FallbackSummaryText(text)
    /\ placeholders' = PlaceholdersV2(Truncate(CleanNotes(text)))
    /\ fn' = "fallback"
    /\ UNCHANGED <<job, text, max_length, chunks, runVars, taskVars, histVars>>

TextNext ==
    \/ SplitMessage
    \/ EscapeText
    \/ ConvertSummary
    \/ FallbackSummary

TextSpec == TextInit /\ [][TextNext]_vars

\* ================================================================ properties
\* The outcomes of a call that the decision table of the call classifier
\* names as retryable: a transport failure and a 5xx answer.
Transient == {"exc", "5xx"}

\* The task is inside the retry loop of the release fetch.
InFetchLoop(r) == pc[r] \in {"fetch", "fetch_wait"}

\* The task ended in a failure it logged as an error.
LoggedFailure(r) == log[r] \in {"api_error", "unknown_error", "not_found"}

\* C1: a release-fetch attempt that ends in a transport exception or a 5xx
\* answer is retried while fewer than 3 attempts were made; the loop never
\* makes more than 3 attempts; an attempt that is answered with anything else
\* ends the loop; and after a third failed attempt the task is in its failure
\* handling, logs an error and returns no release id.
C1_FetchRetriedAtMostThreeTimes ==
    \A r \in Repos :
        /\ fetchAttempts[r] <= 3
        /\ (fetchStatus[r] \in Transient /\ fetchAttempts[r] < 3) => InFetchLoop(r)
        /\ (fetchStatus[r] \notin Transient \cup {"none"}) => ~InFetchLoop(r)
        /\ (fetchStatus[r] \in Transient /\ fetchAttempts[r] = 3) =>
              /\ pc[r] \in {"notify", "returned"}
              /\ LoggedFailure(r)
              /\ result[r] = None

\* Three failed attempts, the last a 5xx: the task has returned no id.
C1_Witness ==
    \E r \in Repos :
        /\ fetchAttempts[r] = 3
        /\ fetchStatus[r] = "5xx"
        /\ pc[r] = "returned"
        /\ result[r] = None

\* C2: a 404 of the release fetch is never followed by another fetch attempt;
\* it is followed by exactly one HEAD check of the repository; when that
\* check answers 200 the task logs "no releases yet", posts nothing to the
\* sink and returns no id; when it answers anything else or fails, the task
\* logs "repository not found", posts one operator notification and returns
\* no id.
C2_NotFoundResolvedByOneExistenceCheck ==
    \A r \in Repos :
        fetchStatus[r] = "404" =>
            /\ pc[r] \in {"head", "notify", "returned"}
            /\ fetchAttempts[r] >= 1
            /\ headChecks[r] = (IF pc[r] = "head" THEN 0 ELSE 1)
            /\ sent[r] = <<>>
            /\ sumAttempts[r] = 0
            /\ result[r] = None
            /\ (pc[r] = "returned" /\ headStatus[r] = "200") =>
                  (log[r] = "no_releases" /\ opAttempts[r] = 0)
            /\ (pc[r] = "returned" /\ headStatus[r] # "200") =>
                  (log[r] = "not_found" /\ opAttempts[r] = 1)
            /\ pc[r] = "notify" => (headStatus[r] \in {"other", "exc"} /\ opAttempts[r] = 0)

\* A first attempt answered 404 with the repository reachable, and another
\* with the repository unreachable and the operator notified.
C2_Witness ==
    /\ \E r \in Repos :
          /\ fetchStatus[r] = "404" /\ fetchAttempts[r] = 1
          /\ pc[r] = "returned" /\ headStatus[r] = "200" /\ opAttempts[r] = 0
    /\ \E r \in Repos :
          /\ fetchStatus[r] = "404" /\ fetchAttempts[r] = 1
          /\ pc[r] = "returned" /\ headStatus[r] = "other" /\ opAttempts[r] = 1

\* C3: a 403 of the release fetch ends the task at once: no further fetch
\* attempt, no HEAD check, nothing posted to the sink (no operator
\* notification), the rate limit logged, no release id returned.
C3_RateLimitIsTerminalAndLoggedOnly ==
    \A r \in Repos :
        fetchStatus[r] = "403" =>
            /\ pc[r] = "returned"
            /\ log[r] = "rate_limit"
            /\ headChecks[r] = 0
            /\ opAttempts[r] = 0
            /\ sent[r] = <<>>
            /\ result[r] = None

\* A first attempt answered 403.
C3_Witness ==
    \E r \in Repos :
        fetchStatus[r] = "403" /\ fetchAttempts[r] = 1 /\ pc[r] = "returned"

\* Every chunk of the announcement was accepted, once and in order.
AllAccepted(r) == nChunks[r] >= 1 /\ sent[r] = [i \in 1..nChunks[r] |-> i]

\* The release fetch succeeded with a well-formed release object.
FetchSucceeded(r) ==
    fetchStatus[r] = "200" /\ release_id[r] # None /\ published_at[r] # "null"

\* The task ended in a failure: of the fetch, of the release object, of a send.
TaskFailed(r) ==
    pc[r] = "returned" /\ (~FetchSucceeded(r) \/ sinkError[r] # "none")

\* main is past the gather barrier.
Gathered == mainPc \in {"save", "done"}

\* C4: the map handed to save_state differs from the snapshot in a
\* repository's entry only if that repository's release fetch succeeded and
\* every chunk of its announcement was accepted, and then it holds the fetched
\* id; a task that ended in a failure leaves the entry as in the snapshot;
\* a successful write puts exactly that map in the file, and a write that
\* could not open the file leaves the file as it was read.
C4_StateChangesOnlyAfterFullNotification ==
    /\ ~Gathered => new_state = current_state
    /\ Gathered =>
          \A r \in Repos :
              /\ new_state[r] # current_state[r] =>
                    (FetchSucceeded(r) /\ AllAccepted(r) /\ new_state[r] = release_id[r])
              /\ TaskFailed(r) => new_state[r] = current_state[r]
    /\ (mainPc = "done" /\ saveOutcome = "ok") =>
          stateFile = [status |-> "ok", data |-> new_state]
    /\ (mainPc = "done" /\ saveOutcome = "open_failed") =>
          LoadState(stateFile) = current_state

\* The state was written: one entry changed after a full announcement, the
\* other task failed after its first chunk was accepted and its entry is the
\* snapshot's.
C4_Witness ==
    /\ mainPc = "done" /\ saveOutcome = "ok"
    /\ \E r \in Repos : stateFile.data[r] # current_state[r] /\ AllAccepted(r)
    /\ \E r \in Repos :
          /\ TaskFailed(r) /\ Len(sent[r]) = 1 /\ nChunks[r] = 2
          /\ stateFile.data[r] = current_state[r]

\* C5: when the release fetch succeeded with a well-formed release whose id
\* differs from the stored one and no send failed, the sink accepted the
\* chunks 1..n of one announcement, each once and in order, and the map saved
\* at the end of the run (the file, when the write succeeded) holds the
\* reported id; at no time is a chunk accepted twice or out of order.
C5_NewReleaseAnnouncedOnceAndRecorded ==
    \A r \in Repos :
        /\ Len(sent[r]) <= nChunks[r]
        /\ \A i \in 1..Len(sent[r]) : sent[r][i] = i
        /\ (Gathered /\ FetchSucceeded(r) /\ release_id[r] # last_id[r]
                /\ sinkError[r] = "none") =>
              /\ AllAccepted(r)
              /\ new_state[r] = release_id[r]
              /\ (mainPc = "done" /\ saveOutcome = "ok") =>
                    stateFile.data[r] = release_id[r]

\* Stored id 100, reported id 101, a two-chunk announcement accepted, the
\* file holds 101.
C5_Witness ==
    \E r \in Repos :
        /\ mainPc = "done" /\ saveOutcome = "ok"
        /\ current_state[r] = 100 /\ release_id[r] = 101
        /\ sent[r] = <<1, 2>>
        /\ stateFile.data[r] = 101

\* C6: when the release fetch succeeded and the reported id equals the
\* stored id, the task has returned no id, has requested no summary, has
\* posted nothing to the sink, and the repository's entry in the saved map
\* (and in the file, when written) is the snapshot's.
C6_SameReleaseIsSilent ==
    \A r \in Repos :
        (fetchStatus[r] = "200" /\ release_id[r] # None /\ release_id[r] = last_id[r]) =>
            /\ pc[r] = "returned"
            /\ log[r] = "no_updates"
            /\ summary[r] = "none" /\ sumAttempts[r] = 0
            /\ nChunks[r] = 0 /\ sent[r] = <<>>
            /\ opAttempts[r] = 0
            /\ result[r] = None
            /\ new_state[r] = current_state[r]
            /\ (mainPc = "done" /\ saveOutcome = "ok") =>
                  stateFile.data[r] = current_state[r]

\* Stored id 100, reported id 100, the run is over and the file still holds
\* 100.
C6_Witness ==
    \E r \in Repos :
        /\ mainPc = "done" /\ saveOutcome = "ok"
        /\ last_id[r] = 100 /\ fetchStatus[r] = "200" /\ release_id[r] = 100
        /\ stateFile.data[r] = 100

\* C7: whatever the interleaving, a task that has not returned can take its
\* next step whatever its siblings did (a sibling's failure aborts nothing);
\* main passes the barrier only when every task has returned; and every
\* task that returned a release id has it in the saved map (and in the
\* file, when written), whatever the outcome of the others.
C7_FailuresContainedPerTask ==
    \A r \in Repos :
        /\ (mainPc = "gather" /\ pc[r] # "returned") => ENABLED Task(r)
        /\ Gathered =>
              /\ pc[r] = "returned"
              /\ result[r] # None => new_state[r] = result[r]
              /\ (mainPc = "done" /\ saveOutcome = "ok" /\ result[r] # None) =>
                    stateFile.data[r] = result[r]

\* One task ended in a logged failure with the operator notified, its
\* sibling returned a release id, and the file holds that id.
C7_Witness ==
    \E r, q \in Repos :
        /\ mainPc = "done" /\ saveOutcome = "ok"
        /\ LoggedFailure(r) /\ result[r] = None /\ opAttempts[r] = 1
        /\ result[q] # None /\ stateFile.data[q] = result[q]

\* C8: load_state is called once, before any task exists, and every task
\* gets its last seen id from that snapshot; save_state is called once, and
\* only after every task has returned; while tasks run neither the snapshot,
\* nor main's copy, nor the file changes (the results are applied after the
\* barrier).
C8_StateReadOnceWrittenOnceAfterBarrier ==
    /\ loadCalls = (IF mainPc = "start" THEN 0 ELSE 1)
    /\ saveCalls = (IF mainPc = "done" THEN 1 ELSE 0)
    /\ saveOutcome = "none" <=> saveCalls = 0
    /\ \A r \in Repos : pc[r] = "idle" <=> mainPc = "start"
    /\ mainPc # "start" => \A r \in Repos : last_id[r] = current_state[r]
    /\ mainPc \in {"gather", "save"} => current_state = LoadState(stateFile)
    /\ mainPc = "gather" => new_state = current_state
    /\ Gathered => \A r \in Repos : pc[r] = "returned"

\* The run is over: one load, one save, and the saved map differs from the
\* snapshot.
C8_Witness ==
    /\ mainPc = "done"
    /\ loadCalls = 1 /\ saveCalls = 1
    /\ new_state # current_state

\* C9: the fallback text is used only after the summary call failed 3 times;
\* a task that uses it goes on as one with an AI summary does: it builds and
\* sends the announcement, logs no error and posts no operator notification
\* unless the release object or a send fails; and when every chunk is
\* accepted it returns the new release id, which the saved map then holds.
C9_SummaryFailureDegradesToFallback ==
    \A r \in Repos :
        /\ pc[r] \in {"summary", "summary_wait"} => summary[r] = "none"
        /\ (summary[r] = "fallback" /\ pc[r] = "message") =>
              (sumAttempts[r] = 3 /\ sumStatus[r] # "ok")
        /\ (summary[r] = "fallback" /\ published_at[r] = "date" /\ sinkError[r] = "none") =>
              /\ pc[r] \in {"message", "send", "pause", "returned"}
              /\ log[r] = "new_release"
              /\ opAttempts[r] = 0
              /\ pc[r] = "returned" =>
                    (AllAccepted(r) /\ result[r] = release_id[r] /\ result[r] # None)
              /\ Gathered => new_state[r] = release_id[r]

\* The summary failed three times, the announcement with the fallback text
\* was accepted and the file holds the new id.
C9_Witness ==
    \E r \in Repos :
        /\ mainPc = "done" /\ saveOutcome = "ok"
        /\ summary[r] = "fallback" /\ AllAccepted(r)
        /\ opAttempts[r] = 0
        /\ stateFile.data[r] = release_id[r] /\ release_id[r] # current_state[r]

\* C10: the summary call is re-attempted after exactly those outcomes after
\* which the release fetch is re-attempted: a summary call waiting for its
\* next attempt has failed with a transport exception or a 5xx answer, never
\* with a 403 or another 4xx, which end the call after one attempt as they
\* end the release fetch.
C10_SummaryRetriesAsFetchDoes ==
    \A r \in Repos :
        /\ (pc[r] = "summary_wait" /\ sumStatus[r] \in FetchOutcomes) =>
              sumStatus[r] \in Transient
        /\ (pc[r] = "fetch_wait" /\ fetchStatus[r] \in SummaryOutcomes) =>
              fetchStatus[r] \in Transient

\* C11: in a release fetch whose 3 attempts all failed with a retryable
\* outcome, each wait is the exponential doubling clamped to [4, 10] and the
\* wait before attempt 3 is strictly greater than the wait before attempt 2.
C11_FetchBackoffStrictlyIncreases ==
    \A r \in Repos :
        (fetchAttempts[r] = 3 /\ fetchStatus[r] \in Transient) =>
            /\ Len(fetchWaits[r]) = 2
            /\ \A i \in 1..2 :
                  /\ fetchWaits[r][i] >= FetchWaitMin
                  /\ fetchWaits[r][i] <= FetchWaitMax
            /\ fetchWaits[r][2] > fetchWaits[r][1]

\* Chunk i as split_message_markdown packed it: the chunk less the characters
\* of its part indicator.
ChunkBody(i) ==
    IF Len(chunks) > 1
    THEN SubSeq(chunks[i], 1, Len(chunks[i]) - Len(PartIndicator(i, Len(chunks))))
    ELSE chunks[i]

\* C12: every chunk split_message_markdown returned, its part indicator
\* included, is at most max_length long, unless the chunk is one single line
\* of the input that is itself longer than max_length.
C12_ChunksWithinMaxLength ==
    fn = "split" =>
        \A i \in 1..Len(chunks) :
            \/ Len(chunks[i]) <= max_length
            \/ /\ NL \notin {ChunkBody(i)[q] : q \in 1..Len(ChunkBody(i))}
               /\ Len(ChunkBody(i)) > max_length

\* s holds nothing but newlines.
AllNewlines(s) == \A i \in 1..Len(s) : s[i] = NL

\* The rest t of the input is the chunks cs in their order, each whole, with
\* nothing but newlines before, between and after them, and at least one
\* newline between two chunks: every chunk starts where a line starts and
\* ends where a line ends, and no character of a line is outside a chunk or in
\* two of them.
RECURSIVE Covers(_, _, _)
Covers(t, cs, first) ==
    IF cs = <<>> THEN AllNewlines(t)
    ELSE \E k \in (IF first THEN 0 ELSE 1)..Len(t) :
            /\ AllNewlines(SubSeq(t, 1, k))
            /\ OccursAt(t, cs[1], k + 1)
            /\ Covers(SubSeq(t, k + Len(cs[1]) + 1, Len(t)), Tail(cs), FALSE)

\* The chunks split_message_markdown returned, less their part indicators.
ChunkBodies == [i \in 1..Len(chunks) |-> ChunkBody(i)] \o <<>>

\* t is the chunks cs joined, one line separator or one paragraph separator
\* between each two.
RECURSIVE Rejoins(_, _)
Rejoins(t, cs) ==
    IF cs = <<>> THEN t = <<>>
    ELSE /\ OccursAt(t, cs[1], 1)
         /\ IF Len(cs) = 1 THEN Len(t) = Len(cs[1])
            ELSE \E sep \in {<<NL>>, <<NL, NL>>} :
                    /\ OccursAt(t, sep, Len(cs[1]) + 1)
                    /\ Rejoins(SubSeq(t, Len(cs[1]) + Len(sep) + 1, Len(t)), Tail(cs))

\* C13 as stated: the chunks split_message_markdown returned, their part
\* indicators removed, hold every line of the input once and in order:
\* joining them with line or paragraph separators reproduces the input.
C13_ChunksRejoinToTheInput ==
    fn = "split" => Rejoins(text, ChunkBodies)

\* C13, amended: the chunks split_message_markdown returned, their part
\* indicators removed and taken in order, are consecutive pieces of the input
\* made of whole lines: every line that is not empty is in exactly one chunk,
\* the lines are in their original order, what is left out before, between
\* and after the chunks is newlines only (at least one between two chunks),
\* and no chunk boundary falls inside a line.
C13_ChunksCoverTheLines ==
    fn = "split" => Covers(text, ChunkBodies, TRUE)

\* A text of different lines split in two chunks, one of them of two lines.
C13_Witness ==
    /\ fn = "split"
    /\ Len(chunks) = 2
    /\ \E i \in 1..2 : \E q \in 2..(Len(ChunkBody(i)) - 1) : ChunkBody(i)[q] = NL
    /\ Positions(text, "a") # {} /\ Positions(text, "b") # {}

\* The part indicator of chunk i of n as the sink is to receive it: a blank
\* line, then "(<word> i/n)" with its parentheses escaped, in italics.
ExpectedIndicator(i, n) ==
    <<NL, NL, "_", "\\", "(">> \o PartWord \o <<" ">> \o Decimal(i) \o <<"/">>
        \o Decimal(n) \o <<"\\", ")", "_">>

\* C14: a text no longer than max_length is returned as one chunk equal to
\* it; when more than one chunk is returned, chunk i of N ends with the
\* indicator i/N, N the number of chunks returned; when one chunk is
\* returned it carries no indicator (it is a piece of the input).
C14_IndicatorsIffSeveralChunks ==
    fn = "split" =>
        /\ Len(text) <= max_length => chunks = <<text>>
        /\ Len(chunks) > 1 =>
              \A i \in 1..Len(chunks) :
                  EndsWith(chunks[i], ExpectedIndicator(i, Len(chunks)))
        /\ Len(chunks) = 1 =>
              /\ ~EndsWith(chunks[1], ExpectedIndicator(1, 1))
              /\ \E k \in 0..Len(text) : OccursAt(text, chunks[1], k + 1)

\* A text split in three chunks, the second one carrying 2/3.
C14_Witness ==
    /\ fn = "split"
    /\ Len(chunks) = 3
    /\ EndsWith(chunks[2], ExpectedIndicator(2, 3))

\* The reserved characters of the sink's markup dialect.
ReservedChars ==
    {"_", "*", "[", "]", "(", ")", "~", "\\", Backquote, ">", "#", "+", "-", "=", "|",
     "{", "}", ".", "!"}

\* The number of backslashes that end right before position q of s.
BackslashesBefore(s, q) ==
    Cardinality({p \in 1..(q - 1) : \A r \in p..(q - 1) : s[r] = "\\"})

\* Position q of s holds an escape marker: a backslash that is not itself
\* escaped by the backslashes before it.
IsMarker(s, q) == s[q] = "\\" /\ BackslashesBefore(s, q) % 2 = 0

\* The character at position q of s is escaped: an escape marker is right
\* before it.
IsEscaped(s, q) == q > 1 /\ IsMarker(s, q - 1)

\* Every reserved character of s has exactly one escape marker right before
\* it (or is such a marker), and every marker escapes a reserved character.
WellEscaped(s) ==
    \A q \in 1..Len(s) :
        /\ (s[q] \in ReservedChars /\ ~IsMarker(s, q)) => IsEscaped(s, q)
        /\ IsMarker(s, q) => (q < Len(s) /\ s[q + 1] \in ReservedChars)

\* s without its escape markers: the text the reader sees.
Visible(s) ==
    LET kept == SelectSeq([q \in 1..Len(s) |-> <<q, s[q]>>] \o <<>>,
                          LAMBDA e : ~IsMarker(s, e[1]))
    IN [q \in 1..Len(kept) |-> kept[q][2]] \o <<>>

\* What the conversion of a summary made of SummaryParts is to be: a link
\* as it is, a bold span with single markers, a code span as it is, every
\* other character escaped once if it is reserved.
RECURSIVE ExpectedConversion(_)
ExpectedConversion(t) ==
    IF t = <<>> THEN <<>>
    ELSE IF OccursAt(t, LinkSpan, 1)
    THEN LinkSpan \o ExpectedConversion(SubSeq(t, Len(LinkSpan) + 1, Len(t)))
    ELSE IF OccursAt(t, BoldSpan, 1)
    THEN <<"*", "b", "*">> \o ExpectedConversion(SubSeq(t, Len(BoldSpan) + 1, Len(t)))
    ELSE IF OccursAt(t, CodeSpan, 1)
    THEN CodeSpan \o ExpectedConversion(SubSeq(t, Len(CodeSpan) + 1, Len(t)))
    ELSE (IF t[1] \in ReservedChars THEN <<"\\", t[1]>> ELSE <<t[1]>>)
             \o ExpectedConversion(Tail(t))

\* C15: the output of convert_ai_markdown_to_telegram holds no placeholder
\* token (no "PH" of a LINK_PH_n, BOLD_PH_n or CODE_PH_n, escaped or not), and
\* it is the input with each link as written, each **bold** span as *bold*,
\* each inline code span as written, and every reserved character outside
\* the spans escaped once.
C15_SpansRestoredRestEscaped ==
    fn = "convert" =>
        /\ ~Contains(out, <<"P", "H">>)
        /\ out = ExpectedConversion(text)

\* C16 as stated: for every input, the output of escape_markdown_v2 has
\* exactly one escape marker before every reserved character and, the markers
\* removed, is the input: every other character kept, in order and number.
C16_EveryInputEscaped ==
    fn = "escape" => (WellEscaped(out) /\ Visible(out) = text)

\* C16, amended: the same for every input that holds no link pattern, that
\* is no match of \[.*?\]\(.*?\).
C16_LinkFreeInputEscaped ==
    (fn = "escape" /\ LazyLinkMatch(text).open = 0) =>
        (WellEscaped(out) /\ Visible(out) = text)

\* An input with no link in it, holding a backslash, another reserved
\* character and a letter, has been escaped.
C16_Witness ==
    /\ fn = "escape"
    /\ LazyLinkMatch(text).open = 0
    /\ Positions(text, "\\") # {} /\ Positions(text, "[") # {} /\ Positions(text, "a") # {}
    /\ Len(out) > Len(text)

\* C19: every placeholder generated for a protected span, by
\* convert_ai_markdown_to_telegram or by escape_markdown_v2, holds no reserved
\* character, the escaping pass of the function leaves it as it is, and the
\* restoration pass replaced it: nothing of it is left in the output.
C19_PlaceholdersSurviveEscaping ==
    fn \in {"convert", "escape"} =>
        \A i \in 1..Len(placeholders) :
            LET token == placeholders[i] IN
            /\ \A q \in 1..Len(token) : token[q] \notin ReservedChars
            /\ EscapeEach(token, IF fn = "convert" THEN EscapeCharsAI ELSE EscapeCharsV2)
                   = token
            /\ ~Contains(out, <<"P", "H">>)
            /\ ~Contains(out, <<"L", "I", "N", "K">>)

\* The ellipsis marker.
Ellipsis == <<".", ".", ".">>

\* C17: the fallback summary holds no unescaped `*`, `[`, `]`, `(` or `)`;
\* its visible text is at most 500 characters long; the visible text ends
\* with the ellipsis marker exactly when the cleaned description was longer
\* than the budget; and then the marker is escaped in the output.
C17_FallbackCleanShortAndMarked ==
    fn = "fallback" =>
        /\ \A q \in 1..Len(out) :
              out[q] \in {"*", "[", "]", "(", ")"} => IsEscaped(out, q)
        /\ Len(Visible(out)) <= FallbackBudget
        /\ EndsWith(Visible(out), Ellipsis) <=> Len(CleanNotes(text)) > FallbackBudget
        /\ EndsWith(Visible(out), Ellipsis) =>
              EndsWith(out, <<"\\", ".", "\\", ".", "\\", ".">>)

\* The task asked for the summary of the release.
SummaryRequested(r) ==
    pc[r] \in {"summary_wait"} \/ sumAttempts[r] > 0 \/ summary[r] # "none"

\* The task built or started to send the announcement.
SendStarted(r) ==
    \/ pc[r] \in {"send", "pause"}
    \/ nChunks[r] > 0
    \/ sent[r] # <<>>
    \/ sinkError[r] # "none"

\* C18: in a task the steps come in the order fetch, classify, summarize,
\* send.  While the release is fetched no summary was asked for and nothing
\* was sent; a summary is asked for only after the fetch was answered 200
\* with an id that differs from the last seen one, and while it is awaited
\* nothing was sent; the announcement is built and its first chunk sent only
\* after the summary, the AI's or the fallback, is there; and the task returns
\* the new release id only after the last chunk was accepted.
C18_FetchClassifySummarizeSend ==
    \A r \in Repos :
        /\ InFetchLoop(r) => (~SummaryRequested(r) /\ ~SendStarted(r))
        /\ (pc[r] \in {"summary", "summary_wait"} \/ SummaryRequested(r)) =>
              /\ fetchStatus[r] = "200"
              /\ release_id[r] # None
              /\ release_id[r] # last_id[r]
        /\ pc[r] \in {"summary", "summary_wait"} => ~SendStarted(r)
        /\ (pc[r] = "message" \/ SendStarted(r)) =>
              summary[r] \in {"ai", "nodesc", "fallback"}
        /\ result[r] # None =>
              /\ AllAccepted(r)
              /\ result[r] = release_id[r]
              /\ pc[r] = "returned"

\* A task fetched a new release, got the AI's summary, had both chunks of the
\* announcement accepted and returned the new id.
C18_Witness ==
    \E r \in Repos :
        /\ fetchStatus[r] = "200" /\ release_id[r] # last_id[r]
        /\ summary[r] = "ai"
        /\ sent[r] = <<1, 2>>
        /\ result[r] = release_id[r] /\ result[r] # None

\* C20: the 404 branch (the HEAD check of the repository, "no releases yet",
\* "repository not found") and the 403 branch ("rate limit") are entered only
\* when the release fetch itself was answered 404 or 403: a task whose
\* announcement the sink refused with an error status has made no HEAD check
\* and has logged none of the three.
C20_SinkStatusNotTakenForSourceStatus ==
    \A r \in Repos :
        /\ (pc[r] = "head" \/ headChecks[r] > 0 \/ log[r] \in {"no_releases", "not_found"}) =>
              fetchStatus[r] = "404"
        /\ log[r] = "rate_limit" => fetchStatus[r] = "403"
        /\ sinkError[r] \in {"400", "403", "404"} =>
              /\ headChecks[r] = 0
              /\ pc[r] # "head"
              /\ log[r] \notin {"no_releases", "not_found", "rate_limit"}

\* The positions of a task that is still inside check_repo_for_updates or has
\* returned from it.
InsideOrReturned ==
    {"idle", "fetch", "fetch_wait", "summary", "summary_wait", "message", "send",
     "pause", "head", "notify", "returned"}

\* One of the task's calls has failed for good: the release fetch, the
\* parsing of the release, the HEAD check, the sending of the announcement or
\* the operator notification.
CallFailed(r) ==
    \/ log[r] \in {"api_error", "unknown_error", "not_found", "rate_limit"}
    \/ headStatus[r] \in {"other", "exc"}
    \/ sinkError[r] # "none"
    \/ opAttempts[r] > opAccepted[r]

\* C23: check_repo_for_updates hands no exception to the coordinator.  A task
\* is always inside the function or has returned from it; what it returns is
\* the id of the release it announced or None; once one of its calls has
\* failed for good it is in its own failure handling or has returned None;
\* after the operator notification, accepted or not, it has returned None;
\* and when gather has returned every task has returned.
C23_TaskAlwaysReturns ==
    \A r \in Repos :
        /\ pc[r] \in InsideOrReturned
        /\ result[r] \in {None, release_id[r]}
        /\ CallFailed(r) => pc[r] \in {"head", "notify", "returned"} /\ result[r] = None
        /\ opAttempts[r] >= 1 => pc[r] = "returned" /\ result[r] = None
        /\ Gathered => pc[r] = "returned"

\* The sink was unreachable for the announcement and for the operator
\* notification that followed: the task has returned None and the run ended.
C23_Witness ==
    /\ mainPc = "done"
    /\ \E r \in Repos :
          /\ sinkError[r] = "exc"
          /\ opAttempts[r] = 1
          /\ opAccepted[r] = 0
          /\ pc[r] = "returned"
          /\ result[r] = None

\* The task has left the retry loop of the release fetch.
PastFetchLoop(r) == pc[r] \notin {"idle", "fetch", "fetch_wait"}

\* The task has left the retry loop of the summary.
PastSummaryLoop(r) == PastFetchLoop(r) /\ pc[r] \notin {"summary", "summary_wait"}

\* The run is over: every task has returned and main has saved the state.
RunEnded ==
    /\ mainPc = "done"
    /\ saveCalls = 1
    /\ \A r \in Repos : pc[r] = "returned"

\* C21: every run ends with the state write after a bounded number of calls.
\* Whatever the calls answer, a task makes at most 3 release fetches in one
\* loop it never enters again, at most 3 summary attempts in one loop it never
\* enters again, at most 1 HEAD check, one POST per chunk of the announcement
\* (each chunk accepted at most once, in order, and none after a refusal) and
\* at most 1 operator notification; and under the scheduling of the event
\* loop every task returns and main saves the state, once, and stops.
C21_RunEndsAfterBoundedCalls ==
    /\ [](\A r \in Repos :
            /\ fetchAttempts[r] <= FetchMaxAttempts
            /\ sumAttempts[r] <= SummaryMaxAttempts
            /\ headChecks[r] <= 1
            /\ opAttempts[r] <= 1
            /\ Len(sent[r]) <= nChunks[r]
            /\ sent[r] = [i \in 1..Len(sent[r]) |-> i]
            /\ sinkError[r] # "none" => pc[r] \notin {"send", "pause"}
            /\ saveCalls <= 1)
    /\ [][\A r \in Repos :
            /\ PastFetchLoop(r) => PastFetchLoop(r)'
            /\ PastSummaryLoop(r) => PastSummaryLoop(r)'
            /\ pc[r] = "returned" => pc'[r] = "returned"]_vars
    /\ <>[]RunEnded

\* A run that used every call it may: one task made 3 release fetches, the
\* last answered 404, the HEAD check and the operator notification; the other
\* made 3 summary attempts and sent every chunk of the longest announcement;
\* main has saved the state.
C21_Witness ==
    /\ RunEnded
    /\ \E r \in Repos :
          /\ fetchAttempts[r] = FetchMaxAttempts
          /\ fetchStatus[r] = "404"
          /\ headChecks[r] = 1
          /\ opAttempts[r] = 1
    /\ \E r \in Repos :
          /\ summary[r] = "fallback"
          /\ nChunks[r] = MaxChunks
          /\ Len(sent[r]) = MaxChunks

\* The release the source reports for the repository is the one whose
\* announcement reached the sink, in part or whole, in the run before.
SameReleaseAgain(r) ==
    /\ run = "second"
    /\ earlier[r].id # None
    /\ release_id[r] = earlier[r].id

\* C22: over two runs in which the source reports the same release of a
\* repository, no chunk of the release's announcement that the sink accepted
\* in the first run is posted and accepted again in the second.
C22_AcceptedChunksNotSentAgain ==
    \A r \in Repos :
        SameReleaseAgain(r) =>
            \A i \in 1..Len(sent[r]) : \A j \in 1..Len(earlier[r].sent) :
                sent[r][i] # earlier[r].sent[j]
====
